---------------------------- MODULE Spec2Model ----------------------------
(***************************************************************************)
(* A model of SQLiteStore (lib/connect-better-sqlite3.js): an expiring     *)
(* session store over one SQLite table (id PRIMARY KEY, expires_at, data). *)
(* The table is a set of rows, the clock is the value new Date().getTime() *)
(* returns, and every store method is one action that runs the prepared    *)
(* statement of the method and hands (err, result) to the callback.        *)
(***************************************************************************)
EXTENDS Integers, Sequences, FiniteSets, TLC

(***************************************************************************)
(* Bounds of the model.                                                    *)
(***************************************************************************)
\* the clock runs over 0..MaxTime
MaxTime == 2

(***************************************************************************)
(* Program constants.                                                      *)
(***************************************************************************)
ONE_DAY == 86400000

(***************************************************************************)
(* JavaScript values.  Every value is a record of the same shape so that   *)
(* values of different types can be compared: type is the type tag, num    *)
(* the payload of a number, str the characters of a string, props the own  *)
(* properties of an object in insertion order.                             *)
(***************************************************************************)
Undefined == [type |-> "undefined", num |-> 0, str |-> <<>>, props |-> <<>>]

Null == [type |-> "null", num |-> 0, str |-> <<>>, props |-> <<>>]

Num(n) == [type |-> "number", num |-> n, str |-> <<>>, props |-> <<>>]

Str(s) == [type |-> "string", num |-> 0, str |-> s, props |-> <<>>]

Obj(p) == [type |-> "object", num |-> 0, str |-> <<>>, props |-> p]

\* v.key: undefined when v has no such own property
Prop(v, key) ==
    IF v.type = "object" /\ \E i \in 1..Len(v.props) : v.props[i].key = key
    THEN v.props[CHOOSE i \in 1..Len(v.props) : v.props[i].key = key].val
    ELSE Undefined

\* ToBoolean(v), as used by &&, || and !
Truthy(v) ==
    CASE v.type = "undefined" -> FALSE
      [] v.type = "null"      -> FALSE
      [] v.type = "number"    -> v.num # 0
      [] v.type = "string"    -> Len(v.str) > 0
      [] OTHER                -> TRUE

(***************************************************************************)
(* JSON.stringify and JSON.parse, on texts that are sequences of           *)
(* characters.  The grammar covered is the one stringify emits for the     *)
(* values above: null, integers, strings without escapes, objects.         *)
(***************************************************************************)
DigitChars == <<"0", "1", "2", "3", "4", "5", "6", "7", "8", "9">>

IsDigit(c) == \E d \in 1..10 : DigitChars[d] = c

DigitValue(c) == (CHOOSE d \in 1..10 : DigitChars[d] = c) - 1

RECURSIVE Digits(_)
Digits(n) ==
    IF n < 10 THEN <<DigitChars[n + 1]>>
    ELSE Digits(n \div 10) \o <<DigitChars[(n % 10) + 1]>>

Quoted(s) == <<"\"">> \o s \o <<"\"">>

RECURSIVE JSONstringify(_)
RECURSIVE StringifyProps(_, _)
StringifyProps(p, i) ==
    IF i > Len(p) THEN <<>>
    ELSE (IF i > 1 THEN <<",">> ELSE <<>>)
         \o Quoted(p[i].key) \o <<":">> \o JSONstringify(p[i].val)
         \o StringifyProps(p, i + 1)

JSONstringify(v) ==
    CASE v.type = "number" ->
            IF v.num < 0 THEN <<"-">> \o Digits(0 - v.num) ELSE Digits(v.num)
      [] v.type = "string" -> Quoted(v.str)
      [] v.type = "object" -> <<"{">> \o StringifyProps(v.props, 1) \o <<"}">>
      [] OTHER             -> <<"n", "u", "l", "l">>

\* a parse step: ok, the value read, the index after it
Fail == [ok |-> FALSE, val |-> Undefined, next |-> 0]

Read(v, n) == [ok |-> TRUE, val |-> v, next |-> n]

CharAt(s, i) == IF i >= 1 /\ i <= Len(s) THEN s[i] ELSE ""

RECURSIVE ScanDigits(_, _, _)
ScanDigits(s, i, acc) ==
    IF IsDigit(CharAt(s, i))
    THEN ScanDigits(s, i + 1, acc * 10 + DigitValue(s[i]))
    ELSE Read(Num(acc), i)

ParseNumber(s, i) ==
    IF CharAt(s, i) = "-"
    THEN IF IsDigit(CharAt(s, i + 1))
         THEN LET r == ScanDigits(s, i + 1, 0) IN Read(Num(0 - r.val.num), r.next)
         ELSE Fail
    ELSE IF IsDigit(CharAt(s, i)) THEN ScanDigits(s, i, 0) ELSE Fail

RECURSIVE ScanString(_, _, _)
ScanString(s, i, acc) ==
    IF i > Len(s) THEN Fail
    ELSE IF s[i] = "\"" THEN Read(Str(acc), i + 1)
    ELSE ScanString(s, i + 1, Append(acc, s[i]))

ParseString(s, i) ==
    IF CharAt(s, i) = "\"" THEN ScanString(s, i + 1, <<>>) ELSE Fail

RECURSIVE ParseValue(_, _)
RECURSIVE ParseMembers(_, _, _)
ParseMembers(s, i, acc) ==
    LET k == ParseString(s, i) IN
    IF ~k.ok \/ CharAt(s, k.next) # ":" THEN Fail
    ELSE LET v == ParseValue(s, k.next + 1) IN
         IF ~v.ok THEN Fail
         ELSE LET p == Append(acc, [key |-> k.val.str, val |-> v.val]) IN
              IF CharAt(s, v.next) = "," THEN ParseMembers(s, v.next + 1, p)
              ELSE IF CharAt(s, v.next) = "}" THEN Read(Obj(p), v.next + 1)
              ELSE Fail

ParseValue(s, i) ==
    CASE CharAt(s, i) = "{" ->
            IF CharAt(s, i + 1) = "}" THEN Read(Obj(<<>>), i + 2)
            ELSE ParseMembers(s, i + 1, <<>>)
      [] CharAt(s, i) = "\"" -> ParseString(s, i)
      [] CharAt(s, i) = "n" ->
            IF SubSeq(s, i, i + 3) = <<"n", "u", "l", "l">>
            THEN Read(Null, i + 4) ELSE Fail
      [] OTHER -> ParseNumber(s, i)

\* JSON.parse(text): ok = FALSE stands for the SyntaxError it throws
JSONparse(text) ==
    LET r == ParseValue(text, 1) IN
    IF r.ok /\ r.next = Len(text) + 1
    THEN [ok |-> TRUE, val |-> r.val]
    ELSE [ok |-> FALSE, val |-> Undefined]


(***************************************************************************)
(* The serializer option: JSON (the default), or a pluggable pair that     *)
(* tags the JSON text with a leading "#" and strips it again.              *)
(***************************************************************************)
Serializers == {"JSON", "tagged"}

\* this.serializer.stringify(v)
stringify(ser, v) ==
    IF ser = "JSON" THEN JSONstringify(v) ELSE <<"#">> \o JSONstringify(v)

\* this.serializer.parse(text); ok = FALSE when it throws
parse(ser, text) ==
    IF ser = "JSON" THEN JSONparse(text)
    ELSE IF CharAt(text, 1) = "#" THEN JSONparse(Tail(text))
    ELSE [ok |-> FALSE, val |-> Undefined]

(***************************************************************************)
(* The inputs of the model: ids (numbers or strings in the code, numbers   *)
(* here), and the session values handed to set and touch: a number, a      *)
(* string, and nested objects that carry cookie.maxAge.                    *)
(***************************************************************************)
Ids == {1, 2}

MaxAges == {-1, 0, 1}

Cookie(maxAge) ==
    Obj(<<[key |-> <<"c", "o", "o", "k", "i", "e">>,
           val |-> Obj(<<[key |-> <<"m", "a", "x", "A", "g", "e">>,
                          val |-> Num(maxAge)]>>)]>>)

Sessions ==
    {Num(42), Str(<<"b", "a", "r">>)} \cup {Cookie(m) : m \in MaxAges}

\* touch reads nothing of its session but cookie.maxAge; store.touch(id) passes
\* undefined
TouchSessions == {Undefined} \cup {Cookie(m) : m \in MaxAges}

\* options.ttl: 0 stands for an options object without ttl
TtlOptions == {0, 1}

(***************************************************************************)
(* The state of a store.                                                   *)
(***************************************************************************)
VARIABLES
    table,       \* the rows of the sessions table: [id, expires_at, data]
    now,         \* the clock: new Date().getTime()
    open,        \* whether the connection this.db is open
    ttl,         \* this.ttl
    serializer,  \* this.serializer
    last,        \* the latest call and the (err, result) it handed to its callback
    delivery,    \* how the latest call ended: the callback it was given, how
                 \* often it invoked it, whether an error left the call
    interval,    \* whether the timer this.interval is armed
    process,     \* the host process: "running" or "crashed"
    files,       \* the database file and its sidecar files on disk
    txn,         \* whether a transaction is open on the connection
    exists,      \* whether the sessions table exists
    unswept      \* the table of a store that gets the same calls and no sweep

\* what the methods of the store read and write
store == <<table, now, open, ttl, serializer, last>>

\* what surrounds them: callbacks, timer, process, files, engine, reference
extra == <<delivery, interval, process, files, txn, exists, unswept>>

vars == <<table, now, open, ttl, serializer, last,
          delivery, interval, process, files, txn, exists, unswept>>

\* a call, with what it reported: at is the clock value the call read, err is
\* "none" or the error, res the result value (undefined when there is none),
\* list the array all() produced
Call(op, id, sess, err, res, list) ==
    [op |-> op, id |-> id, sess |-> sess, at |-> now,
     err |-> err, res |-> res, list |-> list]

Done(op, id, sess) == Call(op, id, sess, "none", Undefined, <<>>)

Failed(op, id, sess, err) == Call(op, id, sess, err, Undefined, <<>>)

(***************************************************************************)
(* The prepared statements, as functions of the table.                     *)
(***************************************************************************)
\* a sweep without its WHERE clause: it takes the active rows too
gcStmtNoWhere(t, at) == {}

\* a sweep that compares with <= and so takes the rows that expire right now
gcStmtInclusive(t, at) == {r \in t : ~(r.expires_at <= at)}

\* DELETE FROM table WHERE expires_at < ?
gcStmt(t, at) == {r \in t : ~(r.expires_at < at)}

\* a select that compares with > and so misses the row that expires right now
getStmtStrict(t, id, at) == {r \in t : r.id = id /\ r.expires_at > at}

\* SELECT data FROM table WHERE id = ? AND expires_at >= ?
getStmt(t, id, at) == {r \in t : r.id = id /\ r.expires_at >= at}

\* INSERT OR IGNORE: an existing row with the id is kept
setStmtIgnore(t, row) == IF \E r \in t : r.id = row.id THEN t ELSE t \cup {row}

\* INSERT into a table whose id is no key: an existing row with the id stays
setStmtInsert(t, row) == t \cup {row}

\* INSERT OR REPLACE into a table whose key is the pair (id, expires_at)
setStmtPairKey(t, row) ==
    {r \in t : ~(r.id = row.id /\ r.expires_at = row.expires_at)} \cup {row}

\* INSERT OR REPLACE INTO table (id, expires_at, data) VALUES (...)
setStmt(t, row) == {r \in t : r.id # row.id} \cup {row}

\* a delete that, like the other statements, skips the expired rows
destroyStmtActive(t, id) == {r \in t : ~(r.id = id /\ r.expires_at >= now)}

\* a delete without its WHERE clause
destroyStmtAll(t, id) == {}

\* DELETE FROM table WHERE id = ?
destroyStmt(t, id) == {r \in t : r.id # id}

\* SELECT COUNT(id) FROM table WHERE expires_at >= ?
lengthStmt(t, at) == Cardinality({r \in t : r.expires_at >= at})

\* an update without the expiry test: it also revives an expired row
touchStmtAnyRow(t, expires_at, id, at) ==
    {IF r.id = id THEN [r EXCEPT !.expires_at = expires_at] ELSE r : r \in t}

\* an update whose first and last parameters are bound the other way round
touchStmtSwapped(t, expires_at, id, at) ==
    {IF r.id = id /\ r.expires_at >= expires_at
     THEN [r EXCEPT !.expires_at = at] ELSE r : r \in t}

\* an update without the id test: it moves every active row
touchStmtEveryId(t, expires_at, id, at) ==
    {IF r.expires_at >= at
     THEN [r EXCEPT !.expires_at = expires_at] ELSE r : r \in t}

\* UPDATE table SET expires_at=? WHERE id=? AND expires_at >= ?
touchStmt(t, expires_at, id, at) ==
    {IF r.id = id /\ r.expires_at >= at
     THEN [r EXCEPT !.expires_at = expires_at] ELSE r : r \in t}

\* rows in ascending id order
RECURSIVE OrderById(_)
OrderById(rows) ==
    IF rows = {} THEN <<>>
    ELSE LET first == CHOOSE r \in rows : \A q \in rows : r.id <= q.id
         IN  <<first>> \o OrderById(rows \ {first})

\* SELECT data FROM table WHERE expires_at >= ? ORDER BY id
allStmt(t, at) == OrderById({r \in t : r.expires_at >= at})

\* .pluck(true).get(): the first row's only column, undefined without a row
pluckGet(rows) ==
    IF rows = {} THEN Undefined ELSE Str((CHOOSE r \in rows : TRUE).data)

\* CREATE TABLE IF NOT EXISTS without the DROP before it
createOnly(t) == t

\* the table after DROP TABLE IF EXISTS; CREATE TABLE IF NOT EXISTS
dropAndCreate(t) == {}

(***************************************************************************)
(* The constructor: a store over a fresh database.                         *)
(***************************************************************************)
constructor(options_ttl, options_serializer) ==
    /\ table = {}
    /\ now = 0
    /\ open = TRUE
    /\ ttl = IF options_ttl # 0 THEN options_ttl ELSE ONE_DAY
    /\ serializer = options_serializer
    /\ last = Done("new", 0, Undefined)

\* the rest of the constructor: the table is created, the timer is armed,
\* no call has been made; on_disk are the files the database has
opened(on_disk) ==
    /\ delivery = [cb |-> "none", calls |-> 0, arg |-> "none",
                   thrown |-> FALSE]
    /\ interval = TRUE
    /\ process = "running"
    /\ files = on_disk
    /\ txn = FALSE
    /\ exists = TRUE
    /\ unswept = {}

\* a store with the default serializer
Init == (\E o \in TtlOptions : constructor(o, "JSON")) /\ opened({"db"})

\* a store with any serializer
InitSerializer ==
    (\E o \in TtlOptions, s \in Serializers : constructor(o, s)) /\ opened({"db"})

(***************************************************************************)
(* The clock moves on between calls.                                       *)
(***************************************************************************)
Tick ==
    /\ now < MaxTime
    /\ now' = now + 1
    /\ UNCHANGED <<table, open, ttl, serializer, last>>

(***************************************************************************)
(* The store methods.  A statement run on a closed connection throws.      *)
(***************************************************************************)
\* _getTTL(sess); the sessions of the model carry numbers as maxAge
getTTL(sess) ==
    IF Truthy(sess) /\ Truthy(Prop(sess, <<"c", "o", "o", "k", "i", "e">>))
       /\ Truthy(Prop(Prop(sess, <<"c", "o", "o", "k", "i", "e">>),
                      <<"m", "a", "x", "A", "g", "e">>))
    THEN Prop(Prop(sess, <<"c", "o", "o", "k", "i", "e">>),
              <<"m", "a", "x", "A", "g", "e">>).num
    ELSE ttl

\* what length() reports on an open connection at clock value at
lengthCall(t, at) ==
    Call("length", 0, Undefined, "none", Num(lengthStmt(t, at)), <<>>)

length ==
    /\ last' = IF ~open THEN Failed("length", 0, Undefined, "closed")
               ELSE lengthCall(table, now)
    /\ UNCHANGED <<table, now, open, ttl, serializer>>

\* what get(id) reports on an open connection at clock value at
getCall(t, id, at) ==
    LET data == pluckGet(getStmt(t, id, at)) IN
    IF ~Truthy(data) THEN Done("get", id, Undefined)
    ELSE LET result == parse(serializer, data.str) IN
         IF ~result.ok THEN Failed("get", id, Undefined, "syntax")
         ELSE Call("get", id, Undefined, "none", result.val, <<>>)

get(id) ==
    /\ last' = IF ~open THEN Failed("get", id, Undefined, "closed")
               ELSE getCall(table, id, now)
    /\ UNCHANGED <<table, now, open, ttl, serializer>>

set(id, sess) ==
    LET expires_at == now + getTTL(sess)
        data == stringify(serializer, sess)
    IN  /\ table' = IF open
                    THEN setStmt(table, [id |-> id, expires_at |-> expires_at,
                                         data |-> data])
                    ELSE table
        /\ last' = IF open THEN Done("set", id, sess)
                   ELSE Failed("set", id, sess, "closed")
        /\ UNCHANGED <<now, open, ttl, serializer>>

destroy(id) ==
    /\ table' = IF open THEN destroyStmt(table, id) ELSE table
    /\ last' = IF open THEN Done("destroy", id, Undefined)
               ELSE Failed("destroy", id, Undefined, "closed")
    /\ UNCHANGED <<now, open, ttl, serializer>>

clear ==
    /\ table' = IF open THEN dropAndCreate(table) ELSE table
    /\ last' = IF open THEN Done("clear", 0, Undefined)
               ELSE Failed("clear", 0, Undefined, "closed")
    /\ UNCHANGED <<now, open, ttl, serializer>>

touch(id, sess) ==
    LET expires_at == now + getTTL(sess)
    IN  /\ table' = IF open THEN touchStmt(table, expires_at, id, now) ELSE table
        /\ last' = IF open THEN Done("touch", id, sess)
                   ELSE Failed("touch", id, sess, "closed")
        /\ UNCHANGED <<now, open, ttl, serializer>>

\* .map((s) => JSON.parse(s)) over the texts of the rows
parseAll(rows) == [i \in 1..Len(rows) |-> JSONparse(rows[i].data)]

\* what all() reports on an open connection at clock value at
allCall(t, at) ==
    LET parsed == parseAll(allStmt(t, at)) IN
    IF \E i \in 1..Len(parsed) : ~parsed[i].ok
    THEN Failed("all", 0, Undefined, "syntax")
    ELSE Call("all", 0, Undefined, "none", Undefined,
              [i \in 1..Len(parsed) |-> parsed[i].val])

all ==
    /\ last' = IF ~open THEN Failed("all", 0, Undefined, "closed")
               ELSE allCall(table, now)
    /\ UNCHANGED <<table, now, open, ttl, serializer>>

\* the sweep, run by the timer or called directly
gc ==
    /\ table' = IF open THEN gcStmt(table, now) ELSE table
    /\ last' = IF open THEN Done("gc", 0, Undefined)
               ELSE Failed("gc", 0, Undefined, "closed")
    /\ UNCHANGED <<now, open, ttl, serializer>>

\* a close that throws on a connection that is closed already
closeOnce ==
    /\ open' = FALSE
    /\ last' = IF open THEN Done("close", 0, Undefined)
               ELSE Failed("close", 0, Undefined, "closed")
    /\ UNCHANGED <<table, now, ttl, serializer>>

\* db.close(): closing a closed connection does nothing
close ==
    /\ open' = FALSE
    /\ last' = Done("close", 0, Undefined)
    /\ UNCHANGED <<table, now, ttl, serializer>>

\* the calls on the store, in any order, at any clock value
Next ==
    \/ Tick /\ UNCHANGED extra
    \/ length /\ UNCHANGED extra
    \/ (\E id \in Ids : get(id)) /\ UNCHANGED extra
    \/ (\E id \in Ids, sess \in Sessions : set(id, sess)) /\ UNCHANGED extra
    \/ (\E id \in Ids : destroy(id)) /\ UNCHANGED extra
    \/ clear /\ UNCHANGED extra
    \/ (\E id \in Ids, sess \in TouchSessions : touch(id, sess))
          /\ UNCHANGED extra
    \/ all /\ UNCHANGED extra
    \/ gc /\ UNCHANGED extra
    \/ close /\ UNCHANGED extra

Spec == Init /\ [][Next]_vars

SpecSerializer == InitSerializer /\ [][Next]_vars

(***************************************************************************)
(* Vocabulary of the properties.                                           *)
(***************************************************************************)
\* the rows of t that have not expired at clock value at
ActiveRows(t, at) == {r \in t : ~(r.expires_at < at)}

\* the rows of t that have expired at clock value at
ExpiredRows(t, at) == {r \in t : r.expires_at < at}

RowsOf(t, id) == {r \in t : r.id = id}

\* the latest call was op, on an open connection, and reported no error
Returned(op) == last.op = op /\ last.err = "none"

\* this step is a call of op on an open connection (a call reads the clock,
\* Tick alone moves it, and every call but close leaves the connection as it is)
Step(op) == last'.op = op /\ now' = now /\ open

\* the value decoded from a row by the configured serializer
Decoded(r) == parse(serializer, r.data).val

(***************************************************************************)
(* C1.  set(id, v) followed immediately by get(id), with no clock advance  *)
(* and no other call in between, reports no error and returns a value      *)
(* equal to v, for every id and every v.                                   *)
(***************************************************************************)
C1_SetThenGet ==
    [][(Returned("set") /\ last.at = now /\ Step("get") /\ last'.id = last.id)
       => (last'.err = "none" /\ last'.res = last.sess)]_vars

(***************************************************************************)
(* C1, amended.  The same, for every v whose expiry now + ttl(v) is not    *)
(* before now.                                                             *)
(***************************************************************************)
C1_SetThenGetUnexpired ==
    [][(Returned("set") /\ last.at = now /\ Step("get") /\ last'.id = last.id
        /\ getTTL(last.sess) >= 0)
       => (last'.err = "none" /\ last'.res = last.sess)]_vars

\* a get has returned a nested object that a set stored
C1_Witness ==
    /\ Returned("get")
    /\ last.res.type = "object"
    /\ \E r \in RowsOf(table, last.id) : Decoded(r) = last.res

(***************************************************************************)
(* C2.  At the clock value a call reads, get, length and all leave out     *)
(* every row with expires_at < now, swept or not, and take in every row    *)
(* with expires_at >= now.                                                 *)
(***************************************************************************)
C2_ExpiredInvisible ==
    /\ Returned("get") =>
         IF \E r \in ActiveRows(table, last.at) : r.id = last.id
         THEN \E r \in ActiveRows(table, last.at) :
                 r.id = last.id /\ last.res = Decoded(r)
         ELSE last.res = Undefined
    /\ Returned("length") =>
         last.res = Num(Cardinality(ActiveRows(table, last.at)))
    /\ Returned("all") =>
         /\ Len(last.list) = Cardinality(ActiveRows(table, last.at))
         /\ \A r \in ActiveRows(table, last.at) :
               \E i \in 1..Len(last.list) : last.list[i] = Decoded(r)

\* a get has found nothing although the row is still in the table, expired,
\* while length and all would count the other row
C2_Witness ==
    /\ Returned("get")
    /\ last.res = Undefined
    /\ \E r \in ExpiredRows(table, last.at) : r.id = last.id
    /\ ActiveRows(table, last.at) # {}

(***************************************************************************)
(* C3.  A sweep at clock value now deletes exactly the rows with           *)
(* expires_at < now: length() and every get(id) report after it what they  *)
(* reported before it.                                                     *)
(***************************************************************************)
C3_SweepKeepsActive ==
    [][Step("gc") =>
         /\ table' = table \ ExpiredRows(table, now)
         /\ ActiveRows(table', now) = ActiveRows(table, now)
         /\ lengthCall(table', now) = lengthCall(table, now)
         /\ \A id \in Ids : getCall(table', id, now) = getCall(table, id, now)]_vars

\* a sweep has run and has left a row that expires at this very clock value
C3_Witness ==
    /\ Returned("gc")
    /\ last.at > 0
    /\ ExpiredRows(table, last.at) = {}
    /\ \E r \in table : r.expires_at = last.at

(***************************************************************************)
(* C4.  touch(id, v) on an id without a row, or whose row has expired and  *)
(* is still in the table, reports no error and changes nothing: no row is  *)
(* created, the expired row keeps its expires_at and data, and get(id)     *)
(* right after it returns absent.                                          *)
(***************************************************************************)
C4_TouchInactiveNoop ==
    [][(Step("touch") /\ RowsOf(ActiveRows(table, now), last'.id) = {})
       => /\ last'.err = "none"
          /\ table' = table
          /\ getCall(table', last'.id, now) = Done("get", last'.id, Undefined)]_vars

\* a touch has run on an expired row, which does not carry the expiry the
\* touch computed
C4_Witness ==
    /\ Returned("touch")
    /\ \E r \in RowsOf(ExpiredRows(table, last.at), last.id) :
          r.expires_at # last.at + getTTL(last.sess)

(***************************************************************************)
(* C5.  touch(id, v) on an active id leaves the stored expires_at strictly *)
(* greater than it was.                                                    *)
(***************************************************************************)
C5_TouchIncreases ==
    [][Step("touch")
       => \A r \in RowsOf(ActiveRows(table, now), last'.id) :
             \A q \in RowsOf(table', last'.id) : q.expires_at > r.expires_at]_vars

(***************************************************************************)
(* C5, amended.  touch(id, v) on an active id sets the stored expires_at   *)
(* to now + ttl(v) and leaves the data alone; the new value is strictly    *)
(* greater than the old one exactly when now + ttl(v) exceeds it.          *)
(***************************************************************************)
C5_TouchSetsExpiry ==
    [][Step("touch")
       => \A r \in RowsOf(ActiveRows(table, now), last'.id) :
             /\ RowsOf(table', last'.id) =
                   {[id |-> last'.id, expires_at |-> now + getTTL(last'.sess),
                     data |-> r.data]}
             /\ \A q \in RowsOf(table', last'.id) :
                   q.expires_at > r.expires_at
                      <=> now + getTTL(last'.sess) > r.expires_at]_vars

\* a touch with maxAge 1 has moved the expiry of a row that was set with the
\* default TTL of one day
C5_Witness ==
    /\ Returned("touch")
    /\ ttl = ONE_DAY
    /\ last.sess = Cookie(1)
    /\ \E r \in RowsOf(table, last.id) :
          Decoded(r) = Num(42) /\ r.expires_at = last.at + 1

(***************************************************************************)
(* C6.  Across set(id, v), length() grows by exactly 1 if no row with that *)
(* id existed before the set and is unchanged if one existed.              *)
(***************************************************************************)
C6_SetLength ==
    [][Step("set")
       => lengthCall(table', now).res.num =
             lengthCall(table, now).res.num
             + (IF RowsOf(table, last'.id) = {} THEN 1 ELSE 0)]_vars

(***************************************************************************)
(* C6, amended.  Across set(id, v), length() loses 1 if an active row with *)
(* that id existed before the set and gains 1 if the new row is active,    *)
(* that is if now + ttl(v) >= now.                                         *)
(***************************************************************************)
C6_SetLengthActive ==
    [][Step("set")
       => lengthCall(table', now).res.num =
             lengthCall(table, now).res.num
             - (IF RowsOf(ActiveRows(table, now), last'.id) # {} THEN 1 ELSE 0)
             + (IF getTTL(last'.sess) >= 0 THEN 1 ELSE 0)]_vars

\* a set has stored a row that is expired at once, beside an active row
C6_Witness ==
    /\ Returned("set")
    /\ getTTL(last.sess) < 0
    /\ RowsOf(ExpiredRows(table, last.at), last.id) # {}
    /\ ActiveRows(table, last.at) # {}

(***************************************************************************)
(* C7.  destroy(id) removes the row with that id whether it is active or   *)
(* expired, and reports no error when there is none: afterwards no row     *)
(* with that id is left, no other row is gone, and get(id) returns absent. *)
(***************************************************************************)
C7_DestroyRemoves ==
    [][Step("destroy")
       => /\ last'.err = "none"
          /\ table' = table \ RowsOf(table, last'.id)
          /\ getCall(table', last'.id, now) = Done("get", last'.id, Undefined)]_vars

\* a destroy has run and the other id still has its row
C7_Witness ==
    /\ Returned("destroy")
    /\ RowsOf(table, last.id) = {}
    /\ table # {}

(***************************************************************************)
(* C8.  Across destroy(id), length() after is max(0, length() before - 1). *)
(***************************************************************************)
C8_DestroyLength ==
    [][Step("destroy")
       => lengthCall(table', now).res.num =
             IF lengthCall(table, now).res.num >= 1
             THEN lengthCall(table, now).res.num - 1 ELSE 0]_vars

(***************************************************************************)
(* C8, amended.  Across destroy(id), length() loses 1 if an active row     *)
(* with that id existed and is unchanged otherwise.                        *)
(***************************************************************************)
C8_DestroyLengthActive ==
    [][Step("destroy")
       => lengthCall(table', now).res.num =
             lengthCall(table, now).res.num
             - (IF RowsOf(ActiveRows(table, now), last'.id) # {} THEN 1 ELSE 0)]_vars

\* a destroy has run and an active row of the other id is still counted
C8_Witness ==
    /\ Returned("destroy")
    /\ ActiveRows(table, last.at) # {}

(***************************************************************************)
(* C9.  After a clear() that reported no error the table holds no row,     *)
(* active or expired: length() is 0, all() is empty, get(id) is absent for *)
(* every id; and a set right after it is accepted and read back by get.    *)
(***************************************************************************)
C9_ClearEmpties ==
    [][/\ Step("clear") =>
            /\ last'.err = "none"
            /\ table' = {}
            /\ lengthCall(table', now).res = Num(0)
            /\ allCall(table', now).err = "none"
            /\ allCall(table', now).list = <<>>
            /\ \A id \in Ids :
                  getCall(table', id, now) = Done("get", id, Undefined)
       /\ (Returned("clear") /\ Step("set")) =>
            /\ last'.err = "none"
            /\ Cardinality(table') = 1
            /\ getTTL(last'.sess) >= 0 =>
                  /\ getCall(table', last'.id, now).err = "none"
                  /\ getCall(table', last'.id, now).res = last'.sess]_vars

\* a clear has run after the clock has moved, and nothing is left
C9_Witness ==
    /\ Returned("clear")
    /\ last.at > 0
    /\ table = {}

(***************************************************************************)
(* C10.  For every serializer, all() returns, in ascending id order,       *)
(* exactly the values get(id) returns at the same clock value for the      *)
(* active ids.                                                             *)
(***************************************************************************)
C10_AllMatchesGet ==
    (last.op = "all" /\ last.err # "closed")
    => LET rows == OrderById(ActiveRows(table, last.at)) IN
       /\ last.err = "none"
       /\ last.list =
             [i \in 1..Len(rows) |-> getCall(table, rows[i].id, last.at).res]

(***************************************************************************)
(* Callbacks.  Every method but gc and close takes a callback; without one *)
(* it falls back to defaultCb, which throws the error it is handed and     *)
(* returns the data otherwise.  What delivery records depends on where the *)
(* method invokes the callback: inside its try block, in its catch block   *)
(* or after both.                                                          *)
(***************************************************************************)
\* "default": no callback was given; "returns": the caller's callback returns;
\* "throws": the caller's callback throws
Callbacks == {"default", "returns", "throws"}

\* the sessions the calls with a callback store
CallbackSessions == {Num(42)}

\* no call with a callback has been made
NoDelivery == [cb |-> "none", calls |-> 0, arg |-> "none", thrown |-> FALSE]

\* whether callback cb throws when it is invoked with error argument err
cbThrows(cb, err) == cb = "throws" \/ (cb = "default" /\ err # "none")

\* cb(err) in a catch block or cb(null, result) after the try statement:
\* one invocation, and what it throws leaves the call
once(cb, err) ==
    [cb |-> cb, calls |-> 1, arg |-> err, thrown |-> cbThrows(cb, err)]

\* length has no try statement: an error of the statement leaves the call
\* before the callback is reached
lengthDelivers(cb, call) ==
    IF call.err # "none"
    THEN [cb |-> cb, calls |-> 0, arg |-> "none", thrown |-> TRUE]
    ELSE once(cb, "none")

\* get invokes cb() for an absent row inside the try block: what the callback
\* throws there is caught and handed to the callback in the catch block
getDelivers(cb, call) ==
    IF call.err = "none" /\ call.res = Undefined /\ cbThrows(cb, "none")
    THEN [cb |-> cb, calls |-> 2, arg |-> "thrown by cb",
          thrown |-> cbThrows(cb, "thrown by cb")]
    ELSE once(cb, call.err)

lengthCb(cb) == length /\ delivery' = lengthDelivers(cb, last')

getCb(id, cb) == get(id) /\ delivery' = getDelivers(cb, last')

setCb(id, sess, cb) == set(id, sess) /\ delivery' = once(cb, last'.err)

destroyCb(id, cb) == destroy(id) /\ delivery' = once(cb, last'.err)

clearCb(cb) == clear /\ delivery' = once(cb, last'.err)

touchCb(id, sess, cb) == touch(id, sess) /\ delivery' = once(cb, last'.err)

allCb(cb) == all /\ delivery' = once(cb, last'.err)

\* close takes no callback
closeCb == close /\ delivery' = NoDelivery

\* everything but the store and the delivery
around == <<interval, process, files, txn, exists, unswept>>

\* calls with and without a callback, in any order
NextCallback ==
    \/ Tick /\ UNCHANGED extra
    \/ (\E cb \in Callbacks : lengthCb(cb)) /\ UNCHANGED around
    \/ (\E id \in Ids, cb \in Callbacks : getCb(id, cb)) /\ UNCHANGED around
    \/ (\E id \in Ids, sess \in CallbackSessions, cb \in Callbacks :
           setCb(id, sess, cb)) /\ UNCHANGED around
    \/ (\E id \in Ids, cb \in Callbacks : destroyCb(id, cb))
          /\ UNCHANGED around
    \/ (\E cb \in Callbacks : clearCb(cb)) /\ UNCHANGED around
    \/ (\E id \in Ids, cb \in Callbacks : touchCb(id, Undefined, cb))
          /\ UNCHANGED around
    \/ (\E cb \in Callbacks : allCb(cb)) /\ UNCHANGED around
    \/ closeCb /\ UNCHANGED around

SpecCallback == Init /\ [][NextCallback]_vars

(***************************************************************************)
(* C11.  Every call of get, set, destroy, touch, length, all or clear with *)
(* a callback of the caller invokes that callback exactly once: on the     *)
(* success path, on the absent path and on the error path, also when the   *)
(* callback throws.                                                        *)
(***************************************************************************)
C11_CallbackOnce ==
    delivery.cb \in {"returns", "throws"} => delivery.calls = 1

(***************************************************************************)
(* C12.  A failure of the engine in a call with a callback of the caller   *)
(* is delivered as the error argument of that callback and does not leave  *)
(* the call; without a callback it is raised out of the call; it is never  *)
(* dropped.                                                                *)
(***************************************************************************)
C12_ErrorToCallback ==
    (last.err = "closed" /\ delivery.cb # "none")
    => IF delivery.cb = "default"
       THEN delivery.thrown
       ELSE /\ delivery.calls >= 1
            /\ delivery.arg = last.err
            /\ delivery.cb = "returns" => ~delivery.thrown

(***************************************************************************)
(* C13.  set(id, v) and touch(id, v) at clock value now store              *)
(* expires_at = now + ttl(v), where ttl(v) is v.cookie.maxAge whenever v   *)
(* carries a numeric cookie.maxAge, zero included, and the configured      *)
(* default TTL otherwise.                                                  *)
(***************************************************************************)
\* v carries a number at v.cookie.maxAge
HasMaxAge(v) ==
    Prop(Prop(v, <<"c", "o", "o", "k", "i", "e">>),
         <<"m", "a", "x", "A", "g", "e">>).type = "number"

\* the TTL the statement above gives v
StatedTTL(v) ==
    IF HasMaxAge(v)
    THEN Prop(Prop(v, <<"c", "o", "o", "k", "i", "e">>),
              <<"m", "a", "x", "A", "g", "e">>).num
    ELSE ttl

C13_ExpiryFromMaxAge ==
    [][/\ Step("set") =>
            \A r \in RowsOf(table', last'.id) :
                r.expires_at = now + StatedTTL(last'.sess)
       /\ Step("touch") =>
            \A r \in RowsOf(table', last'.id) :
                RowsOf(ActiveRows(table, now), last'.id) # {}
                => r.expires_at = now + StatedTTL(last'.sess)]_vars

(***************************************************************************)
(* The life of a store: the timer the constructor arms, close,             *)
(* deleteDatabaseFile and the host process.  The timer's period is not     *)
(* tied to the clock of the model: the timer may fire at any clock value.  *)
(***************************************************************************)
\* the sessions the calls next to the timer store: one that stays and one
\* that has expired when it is stored
LifecycleSessions == {Num(42), Cookie(-1)}

\* a store over a database file: the file and, in WAL mode, its sidecar files
InitLifecycle ==
    /\ \E o \in TtlOptions : constructor(o, "JSON")
    /\ \E on_disk \in {{"db"}, {"db", "wal", "shm"}} : opened(on_disk)

\* a sweep run by the timer instead of a caller
BySweep(err) ==
    [cb |-> "timer", calls |-> 0, arg |-> "none", thrown |-> err # "none"]

\* the timer fires: gc runs as the timer's callback.  gc has no try statement,
\* so an error of its statement leaves the callback; the store installs no
\* handler for it, and the process goes on only if its host has one
timer ==
    /\ interval
    /\ gc
    /\ delivery' = BySweep(last'.err)
    /\ \E handled \in BOOLEAN :
          process' = IF last'.err = "none" \/ handled THEN "running"
                     ELSE "crashed"
    /\ UNCHANGED <<interval, files, txn, exists, unswept>>

\* deleteDatabaseFile(): closes the connection and unlinks the file and the
\* sidecar files that exist
deleteDatabaseFile ==
    /\ open' = FALSE
    /\ files' = files \ {"db", "journal", "wal", "shm"}
    /\ last' = Done("deleteDatabaseFile", 0, Undefined)
    /\ delivery' = once("default", "none")
    /\ UNCHANGED <<table, now, ttl, serializer>>

\* the calls of a running process, and the timer
NextLifecycle ==
    \/ process = "running" /\ Tick /\ UNCHANGED extra
    \/ process = "running"
          /\ (\E id \in Ids, sess \in LifecycleSessions : set(id, sess))
          /\ delivery' = NoDelivery /\ UNCHANGED around
    \/ process = "running" /\ (\E id \in Ids : get(id))
          /\ delivery' = NoDelivery /\ UNCHANGED around
    \/ process = "running" /\ timer
    \/ process = "running" /\ closeCb /\ UNCHANGED around
    \/ process = "running" /\ deleteDatabaseFile
          /\ UNCHANGED <<interval, process, txn, exists, unswept>>

SpecLifecycle == InitLifecycle /\ [][NextLifecycle]_vars

(***************************************************************************)
(* C14.  The timer is started when the store is constructed and stopped    *)
(* when it is shut down: after close() or deleteDatabaseFile() no sweep    *)
(* is fired against the store.                                             *)
(***************************************************************************)
C14_TimerStopped ==
    /\ open => interval
    /\ ~open => ~interval
    /\ ~(delivery.cb = "timer" /\ last.err = "closed")

(***************************************************************************)
(* C15.  A sweep of the timer whose statement fails raises no error into   *)
(* the host process and does not prevent the next sweep: the failure is    *)
(* contained, the process runs on and the timer stays armed.               *)
(***************************************************************************)
C15_FailedSweepContained ==
    (delivery.cb = "timer" /\ last.err # "none")
    => /\ ~delivery.thrown
       /\ process = "running"
       /\ interval

(***************************************************************************)
(* C17.  close() is idempotent: close() on a closed connection, and        *)
(* deleteDatabaseFile() after close(), report no error, and the connection *)
(* after a second close is as it was after the first.                      *)
(***************************************************************************)
C17_CloseIdempotent ==
    /\ [](last.op \in {"close", "deleteDatabaseFile"} => last.err = "none")
    /\ [][(~open /\ last'.op \in {"close", "deleteDatabaseFile"})
          => (~open' /\ table' = table /\ last'.err = "none")]_vars

\* a close after deleteDatabaseFile, which has closed the connection and
\* removed the files
C17_Witness ==
    /\ last.op = "close"
    /\ last.err = "none"
    /\ ~open
    /\ files = {}

(***************************************************************************)
(* A store that sweeps next to a store that never sweeps: unswept is the   *)
(* table of a second store that is handed every call of the first, at the  *)
(* same clock value, and whose timer never fires.                          *)
(***************************************************************************)
\* the sessions the two stores are handed: one without and two with a maxAge,
\* of which one has expired when it is stored
SweepSessions == {Num(42), Cookie(1), Cookie(-1)}

SweepTouchSessions == {Undefined, Cookie(1), Cookie(-1)}

setBoth(id, sess) ==
    /\ set(id, sess)
    /\ unswept' = setStmt(unswept, [id |-> id, expires_at |-> now + getTTL(sess),
                                    data |-> stringify(serializer, sess)])

touchBoth(id, sess) ==
    /\ touch(id, sess)
    /\ unswept' = touchStmt(unswept, now + getTTL(sess), id, now)

destroyBoth(id) == destroy(id) /\ unswept' = destroyStmt(unswept, id)

clearBoth == clear /\ unswept' = dropAndCreate(unswept)

\* everything but the store and the second table
beside == <<delivery, interval, process, files, txn, exists>>

\* the same calls on both stores, and sweeps of the first in between
NextSweep ==
    \/ Tick /\ UNCHANGED extra
    \/ length /\ UNCHANGED extra
    \/ (\E id \in Ids : get(id)) /\ UNCHANGED extra
    \/ all /\ UNCHANGED extra
    \/ (\E id \in Ids, sess \in SweepSessions : setBoth(id, sess))
          /\ UNCHANGED beside
    \/ (\E id \in Ids, sess \in SweepTouchSessions : touchBoth(id, sess))
          /\ UNCHANGED beside
    \/ (\E id \in Ids : destroyBoth(id)) /\ UNCHANGED beside
    \/ clearBoth /\ UNCHANGED beside
    \/ gc /\ UNCHANGED extra

SpecSweep == Init /\ [][NextSweep]_vars

(***************************************************************************)
(* C16.  With a clock that never goes back, sweeps interleaved at any      *)
(* points of a sequence of get, set, touch, destroy, length, all and clear *)
(* calls change the result of none of them: the store that sweeps and the  *)
(* store that never sweeps report the same for every call.                 *)
(***************************************************************************)
\* what the store that never sweeps reports for the latest call
UnsweptCall ==
    CASE last.op = "get"    -> getCall(unswept, last.id, last.at)
      [] last.op = "length" -> lengthCall(unswept, last.at)
      [] last.op = "all"    -> allCall(unswept, last.at)
      [] OTHER              -> Done(last.op, last.id, last.sess)

C16_SweepUnobservable ==
    /\ last.err = UnsweptCall.err
    /\ last.res = UnsweptCall.res
    /\ last.list = UnsweptCall.list
    /\ \A at \in now..MaxTime : ActiveRows(table, at) = ActiveRows(unswept, at)

\* a sweep has removed a row that the other store still holds, and a read
\* after it has reported a row
C16_Witness ==
    /\ table # unswept
    /\ last.op \in {"get", "length", "all"}
    /\ ActiveRows(table, last.at) # {}

(***************************************************************************)
(* clear() and the engine.  clear hands the engine one script: BEGIN, the  *)
(* DROP TABLE, the CREATE TABLE with its index, COMMIT.  The engine runs   *)
(* the statements in turn and stops at the first that fails; clear's catch *)
(* block hands the error to the callback and runs no ROLLBACK.             *)
(***************************************************************************)
\* the statements after BEGIN at which the engine can fail
Faults == {"drop", "create", "commit"}

\* the sessions stored around the clears
ClearSessions == {Num(42)}

\* everything but the store and the state of the engine
apart == <<delivery, interval, process, files, unswept>>

\* clear() whose script fails at statement fault.  The engine undoes the
\* failing statement; whether it also rolls the transaction back depends on
\* the error, and when it does not, what the script has done so far stays in
\* an open transaction
clearFails(fault, rolled_back) ==
    /\ open /\ ~txn
    /\ txn' = ~rolled_back
    /\ exists' = IF rolled_back \/ fault = "drop" THEN exists
                 ELSE fault = "commit"
    /\ table' = IF rolled_back \/ fault = "drop" THEN table
                ELSE dropAndCreate(table)
    /\ last' = Failed("clear", 0, Undefined, fault)
    /\ UNCHANGED <<now, open, ttl, serializer>>

\* clear() with a transaction open: BEGIN fails and nothing else runs
clearNested ==
    /\ open /\ txn
    /\ last' = Failed("clear", 0, Undefined, "begin")
    /\ UNCHANGED <<table, now, open, ttl, serializer, txn, exists>>

\* a statement on the sessions table while there is no such table
missing(op, id, sess) ==
    /\ open /\ ~exists
    /\ last' = Failed(op, id, sess, "no such table")
    /\ UNCHANGED <<table, now, open, ttl, serializer>>

\* calls and sweeps around clears that succeed and clears that fail
NextClear ==
    \/ Tick /\ UNCHANGED extra
    \/ exists /\ (\E id \in Ids, sess \in ClearSessions : set(id, sess))
          /\ UNCHANGED extra
    \/ exists /\ (\E id \in Ids : get(id)) /\ UNCHANGED extra
    \/ exists /\ gc /\ UNCHANGED extra
    \/ (\E id \in Ids, sess \in ClearSessions : missing("set", id, sess))
          /\ UNCHANGED extra
    \/ (\E id \in Ids : missing("get", id, Undefined)) /\ UNCHANGED extra
    \/ missing("gc", 0, Undefined) /\ UNCHANGED extra
    \/ ~txn /\ clear /\ UNCHANGED extra
    \/ (\E fault \in Faults, rolled_back \in BOOLEAN :
           clearFails(fault, rolled_back)) /\ UNCHANGED apart
    \/ clearNested /\ UNCHANGED apart

SpecClear == Init /\ [][NextClear]_vars

(***************************************************************************)
(* C18.  clear() drops and creates the table as one atomic unit: in every  *)
(* state in which another call or a sweep can run, after a clear that      *)
(* succeeded or one that failed part-way, the table exists and no          *)
(* transaction is open, and no call or sweep finds the table missing.      *)
(***************************************************************************)
C18_ClearAtomic ==
    /\ exists
    /\ ~txn
    /\ last.err # "no such table"

(***************************************************************************)
(* C19.  After any sequence of set, touch, destroy, clear and gc calls the *)
(* table holds at most one row per id and every row has an expires_at; a   *)
(* set on an id that has a row replaces that row (the last writer wins)    *)
(* instead of adding a second one.                                         *)
(***************************************************************************)
C19_OneRowPerId ==
    /\ [](/\ \A id \in Ids : Cardinality(RowsOf(table, id)) <= 1
          /\ \A r \in table : r.expires_at \in Int)
    /\ [][Step("set")
          => /\ RowsOf(table', last'.id) =
                   {[id |-> last'.id,
                     expires_at |-> now + getTTL(last'.sess),
                     data |-> stringify(serializer, last'.sess)]}
             /\ Cardinality(table') =
                   Cardinality(table)
                   + (IF RowsOf(table, last'.id) = {} THEN 1 ELSE 0)]_vars

\* both ids have a row, and the latest call is a set, after the clock has
\* moved, whose row is the only one of its id
C19_Witness ==
    /\ Returned("set")
    /\ last.at > 0
    /\ \A id \in Ids : Cardinality(RowsOf(table, id)) = 1
    /\ \E r \in RowsOf(table, last.id) :
          r.expires_at = last.at + getTTL(last.sess)

(***************************************************************************)
(* C20.  Frame conditions: get, length and all change no row; set(id, v),  *)
(* touch(id, v) and destroy(id) leave every row with another id as it is;  *)
(* touch(id, v) never changes the data of the row with that id, whatever   *)
(* v is.                                                                   *)
(***************************************************************************)
C20_Frame ==
    [][/\ (Step("get") \/ Step("length") \/ Step("all")) => table' = table
       /\ (Step("set") \/ Step("touch") \/ Step("destroy"))
          => {r \in table' : r.id # last'.id} = {r \in table : r.id # last'.id}
       /\ Step("touch")
          => /\ Cardinality(table') = Cardinality(table)
             /\ \A r \in RowsOf(table, last'.id) :
                   \E q \in RowsOf(table', last'.id) : q.data = r.data]_vars

\* a touch has moved the expiry of the row of its id, which still carries the
\* data of another session, while the row of the other id is there
C20_Witness ==
    /\ Returned("touch")
    /\ \E r \in RowsOf(table, last.id) :
          /\ r.expires_at = last.at + getTTL(last.sess)
          /\ r.data # stringify(serializer, last.sess)
    /\ \E r \in table : r.id # last.id /\ r.expires_at # last.at + getTTL(last.sess)

=============================================================================
